---- MODULE Spec2Model ----
(***************************************************************************)
(* Model of src/voting.py: class BlockchainVotingSystem, an in-memory      *)
(* ledger of votes.                                                        *)
(*   Spec        one action per public method, every action a whole call   *)
(*               (the single-threaded reference behaviour);                *)
(*   SpecPoW     proof_of_work, one loop iteration per step;               *)
(*   SpecThreads cast_vote and create_block, one statement per step, for   *)
(*               callers on two threads.                                   *)
(***************************************************************************)
EXTENDS Integers, Sequences, FiniteSets, TLC

VARIABLES
    chain,            \* self.chain: list of block dicts
    pending_votes,    \* self.pending_votes: list of vote dicts
    candidates,       \* self.candidates: list of candidate names
    election_name,    \* self.election_name
    election_start,   \* self.election_start
    election_end,     \* self.election_end
    voted_voters,     \* self.voted_voters: set of raw voter ids
    now,              \* the value datetime.now() returns at this moment
    accepted,         \* history: the cast_vote calls that returned a vote, in order
    sealed,           \* history: Len(accepted) at the latest create_block call
    last,             \* history: the most recent whole call, its arguments and outcome
    frames,           \* per thread: the call in progress, its position and locals
    serialized        \* whether the callers start a call only when none is in progress

vars == <<chain, pending_votes, candidates, election_name, election_start,
          election_end, voted_voters, now, accepted, sealed, last, frames,
          serialized>>

----------------------------------------------------------------------------
(* Bounds of the model *)

\* largest number of blocks the chain grows to (genesis included)
MaxChain == 3

\* largest value of the clock
MaxClock == 1

\* raw voter ids a caller passes to cast_vote
VoterIds == {"v1", "v2"}

\* candidate lists an election is constructed with
CandidateLists == { <<"Alice", "Bob", "Charlie">>, <<"Bob", "Alice">> }

\* candidate names a caller passes to cast_vote ("Dave" is in no list)
CandidateInputs == {"Alice", "Bob", "Dave"}

\* largest number of blocks the chain has when a thread calls create_block
MaxThreadChain == 1

\* largest proof the search of proof_of_work is followed to
MaxSearch == 36000

\* voting_duration_days of the constructor (default of line 7)
voting_duration_days == 7

----------------------------------------------------------------------------
(* Helpers *)

Range(s) == { s[i] : i \in 1..Len(s) }

\* previous_hash of the genesis block, line 28
GenesisPreviousHash == "0"

\* proof of the genesis block, line 28
GenesisProof == 100

\* the SHA-256 hex digests of the voter ids of the model (evaluated with
\* hashlib)
VoterDigests ==
    [ v1 |-> "3bfc269594ef649228e9a74bab00f042efc91d5acc6fbee31a382e80d42388fe",
      v2 |-> "fb04dcb6970e4c3d1873de51fd5a50d7bb46b3383113602665c350ec40b5f990" ]

\* hashlib.sha256(voter_id.encode()).hexdigest(), line 91: the digest of a
\* voter id of the model is its real one; the digest of any other string is
\* kept symbolic, a string determined by its input and different from it
hash_voter_id(voter_id) ==
    IF voter_id \in DOMAIN VoterDigests THEN VoterDigests[voter_id]
    ELSE "sha256(" \o voter_id \o ")"

\* str(block): the text of the dict's items in insertion order (lines 38-45)
str(block) == ToString(<<block.index, block.timestamp, block.votes, block.proof,
                         block.previous_hash, block.election_name>>)

\* The decimal strings f'{last_proof}{proof}', for last_proof and proof in
\* {0, 100, 35089, 35293, 119678}, whose SHA-256 hex digest begins with "0000"
\* (evaluated with hashlib over all 25 pairs), or for last_proof in
\* {0, 100, 35293} and proof in 0..36100.
ZeroPrefixGuesses == { "10035293", "3529335089", "35089119678" }

\* hashlib.sha256(guess).hexdigest()[:4] == "0000"
sha256_has_zero_prefix(guess) == guess \in ZeroPrefixGuesses

valid_proof(last_proof, proof) ==
    LET guess == ToString(last_proof) \o ToString(proof)
    IN  sha256_has_zero_prefix(guess)

----------------------------------------------------------------------------
(* Return values and the record of a call *)

\* Python's None
None == [None |-> TRUE]

\* the two ValueError messages of cast_vote (lines 64 and 68)
InvalidCandidate == "Invalid candidate"
DuplicateVoter == "This voter has already cast a vote"

Call(op, args, raised, ret) ==
    [op |-> op, args |-> args, raised |-> raised, ret |-> ret]

----------------------------------------------------------------------------
(* create_block, lines 30-52 *)

\* variant of block_index: the index counted from 0
block_index_from_zero == Len(chain)

\* 'index': len(self.chain) + 1, line 39
block_index == Len(chain) + 1

\* variant of block_votes: the snapshot taken after the buffer was reset
block_votes_after_reset == <<>>

\* 'votes': self.pending_votes.copy(), line 41
block_votes == pending_votes

\* the block dict of lines 38-45
new_block(proof, previous_hash) ==
    [ index         |-> block_index,
      timestamp     |-> now,
      votes         |-> block_votes,
      proof         |-> proof,
      previous_hash |-> previous_hash,
      election_name |-> election_name ]

\* variant of reset_pending: the buffer is kept
reset_pending_kept == pending_votes

\* self.pending_votes = [], line 48
reset_pending == <<>>

\* variant of chain_append: the block takes the place of the last block
chain_replace_last(block) == Append(SubSeq(chain, 1, Len(chain) - 1), block)

\* variant of chain_append: the block is inserted at the front
chain_insert_first(block) == <<block>> \o chain

\* self.chain.append(block), line 51
chain_append(block) == Append(chain, block)

\* proofs that proof_of_work returns along a mined chain: 35293 for
\* last_proof 100, 35089 for 35293, 119678 for 35089
MinedProofs == {35293, 35089, 119678}

\* arguments a caller passes to create_block: the mined proof for the last
\* block's proof with the digest of the last block, as main does (lines
\* 166-169), or proof 0, which fails valid_proof, with the sentinel "0"
BlockInputs ==
    { [proof |-> proof, previous_hash |-> hash_voter_id(str(chain[Len(chain)]))] :
          proof \in { p \in MinedProofs : valid_proof(chain[Len(chain)].proof, p) } }
    \cup { [proof |-> 0, previous_hash |-> GenesisPreviousHash] }

create_block(proof, previous_hash) ==
    /\ Len(chain) < MaxChain
    /\ LET block == new_block(proof, previous_hash)
       IN  /\ pending_votes' = reset_pending
           /\ chain' = chain_append(block)
           /\ last' = Call("create_block",
                           [proof |-> proof, previous_hash |-> previous_hash],
                           "", block)
    /\ sealed' = Len(accepted)
    /\ UNCHANGED <<candidates, election_name, election_start, election_end,
                   voted_voters, now, accepted, frames, serialized>>

----------------------------------------------------------------------------
(* cast_vote, lines 54-81 *)

\* variant of cast_vote_raises: a voter counts as having voted only while the
\* vote is in the pending buffer
cast_vote_raises_pending_only(voter_id, candidate) ==
    IF candidate \notin Range(candidates) THEN InvalidCandidate
    ELSE IF \E i \in 1..Len(pending_votes) :
                pending_votes[i].voter_id = hash_voter_id(voter_id)
         THEN DuplicateVoter
    ELSE ""

\* variant of cast_vote_raises: the candidate is not validated
cast_vote_raises_any_candidate(voter_id, candidate) ==
    IF voter_id \in voted_voters THEN DuplicateVoter ELSE ""

\* variant of cast_vote_raises: the registry is consulted before the candidate
cast_vote_raises_voter_first(voter_id, candidate) ==
    IF voter_id \in voted_voters THEN DuplicateVoter
    ELSE IF candidate \notin Range(candidates) THEN InvalidCandidate
    ELSE ""

\* the ValueError cast_vote raises, "" when it raises none (lines 62-68)
cast_vote_raises(voter_id, candidate) ==
    IF candidate \notin Range(candidates) THEN InvalidCandidate
    ELSE IF voter_id \in voted_voters THEN DuplicateVoter
    ELSE ""

\* variant of new_vote: the raw voter id is stored
new_vote_raw_id(voter_id, candidate) ==
    [ voter_id  |-> voter_id,
      candidate |-> candidate,
      timestamp |-> now ]

\* the vote dict of lines 71-75
new_vote(voter_id, candidate) ==
    [ voter_id  |-> hash_voter_id(voter_id),
      candidate |-> candidate,
      timestamp |-> now ]

\* variant of pending_append: the vote is inserted at the front
pending_insert_first(vote) == <<vote>> \o pending_votes

\* self.pending_votes.append(vote), line 78
pending_append(vote) == Append(pending_votes, vote)

\* variant of voters_add: the anonymized id is added
voters_add_digest(voter_id) == voted_voters \cup {hash_voter_id(voter_id)}

\* self.voted_voters.add(voter_id), line 79
voters_add(voter_id) == voted_voters \cup {voter_id}

\* variant of cast_vote: the voter is marked before the checks
cast_vote_marks_first(voter_id, candidate) ==
    LET raised == cast_vote_raises(voter_id, candidate)
        args   == [voter_id |-> voter_id, candidate |-> candidate]
        vote   == new_vote(voter_id, candidate)
    IN  /\ voted_voters' = voters_add(voter_id)
        /\ IF raised # ""
           THEN /\ last' = Call("cast_vote", args, raised, None)
                /\ UNCHANGED <<pending_votes, accepted>>
           ELSE /\ pending_votes' = pending_append(vote)
                /\ accepted' = Append(accepted, [voter_id |-> voter_id, vote |-> vote])
                /\ last' = Call("cast_vote", args, "", vote)
        /\ UNCHANGED <<chain, candidates, election_name, election_start,
                       election_end, now, sealed, frames, serialized>>

cast_vote(voter_id, candidate) ==
    LET raised == cast_vote_raises(voter_id, candidate)
        args   == [voter_id |-> voter_id, candidate |-> candidate]
        vote   == new_vote(voter_id, candidate)
    IN  IF raised # ""
        THEN /\ last' = Call("cast_vote", args, raised, None)
             /\ UNCHANGED <<chain, pending_votes, candidates, election_name,
                            election_start, election_end, voted_voters, now,
                            accepted, sealed, frames, serialized>>
        ELSE /\ pending_votes' = pending_append(vote)
             /\ voted_voters' = voters_add(voter_id)
             /\ accepted' = Append(accepted, [voter_id |-> voter_id, vote |-> vote])
             /\ last' = Call("cast_vote", args, "", vote)
             /\ UNCHANGED <<chain, candidates, election_name, election_start,
                            election_end, now, sealed, frames, serialized>>

----------------------------------------------------------------------------
(* get_election_results, lines 118-137 *)

\* the keys of {candidate: 0 for candidate in self.candidates} in insertion
\* order: each name once, at the place of its first occurrence (line 126)
RECURSIVE dict_keys(_)
dict_keys(names) ==
    IF names = <<>> THEN <<>>
    ELSE LET front == dict_keys(SubSeq(names, 1, Len(names) - 1))
             name  == names[Len(names)]
         IN  IF name \in Range(front) THEN front ELSE Append(front, name)

\* the inner loop of lines 129-130 over one block's votes; key_error is set
\* when vote_counts[vote['candidate']] has no such key
RECURSIVE count_votes(_, _)
count_votes(tally, votes) ==
    IF votes = <<>> \/ tally.key_error THEN tally
    ELSE LET candidate == Head(votes).candidate
         IN  IF candidate \notin DOMAIN tally.vote_counts
             THEN [tally EXCEPT !.key_error = TRUE]
             ELSE count_votes(
                    [tally EXCEPT !.vote_counts[candidate] = @ + 1],
                    Tail(votes))

\* the outer loop of line 128 over the blocks
RECURSIVE count_blocks(_, _)
count_blocks(tally, blocks) ==
    IF blocks = <<>> \/ tally.key_error THEN tally
    ELSE count_blocks(count_votes(tally, Head(blocks).votes), Tail(blocks))

\* variant of tallied_blocks: the last block is left out
tallied_blocks_but_last == SubSeq(chain, 1, Len(chain) - 1)

\* the blocks get_election_results scans, line 128
tallied_blocks == chain

\* sum(vote_counts.values()), line 134
RECURSIVE sum_values(_, _)
sum_values(vote_counts, keys) ==
    IF keys = <<>> THEN 0
    ELSE vote_counts[Head(keys)] + sum_values(vote_counts, Tail(keys))

\* variant of max_replaces: an equal value replaces the best key too
max_replaces_on_tie(best_value, value) == value >= best_value

\* whether max replaces its best key by the next key: only for a strictly
\* larger value, so the first of several maxima is kept (line 136)
max_replaces(best_value, value) == value > best_value

\* max(vote_counts, key=vote_counts.get), line 136: keys in iteration order
RECURSIVE max_key(_, _, _)
max_key(vote_counts, best, keys) ==
    IF keys = <<>> THEN best
    ELSE max_key(vote_counts,
                 IF max_replaces(vote_counts[best], vote_counts[Head(keys)])
                 THEN Head(keys) ELSE best,
                 Tail(keys))

\* the dict returned at lines 132-137, or the KeyError of line 130
election_results ==
    LET keys  == dict_keys(candidates)
        zero  == [vote_counts |-> [c \in Range(keys) |-> 0], key_error |-> FALSE]
        tally == count_blocks(zero, tallied_blocks)
    IN  IF tally.key_error
        THEN Call("get_election_results", None, "KeyError", None)
        ELSE Call("get_election_results", None, "",
                  [ election_name |-> election_name,
                    total_votes   |-> sum_values(tally.vote_counts, keys),
                    results       |-> tally.vote_counts,
                    winner        |-> max_key(tally.vote_counts, Head(keys), Tail(keys)) ])

\* variant of get_election_results: without force_close the tally is refused
\* until the election has ended
get_election_results_in_window(force_close) ==
    /\ last' = IF ~force_close /\ now < election_end
               THEN Call("get_election_results", [force_close |-> force_close],
                         "ElectionStillOpen", None)
               ELSE [election_results EXCEPT !.args = [force_close |-> force_close]]
    /\ UNCHANGED <<chain, pending_votes, candidates, election_name,
                   election_start, election_end, voted_voters, now, accepted,
                   sealed, frames, serialized>>

get_election_results(force_close) ==
    /\ last' = [election_results EXCEPT !.args = [force_close |-> force_close]]
    /\ UNCHANGED <<chain, pending_votes, candidates, election_name,
                   election_start, election_end, voted_voters, now, accepted,
                   sealed, frames, serialized>>

----------------------------------------------------------------------------
(* The clock and the constructor *)

\* datetime.now() moves on between two calls (a call reads one clock value)
Tick ==
    /\ now < MaxClock
    /\ now' = now + 1
    /\ UNCHANGED <<chain, pending_votes, candidates, election_name,
                   election_start, election_end, voted_voters, accepted,
                   sealed, last, frames, serialized>>

\* the threads of the callers
Threads == {1, 2}

\* the frame of a thread that is in no call
Idle == [op |-> "", pc |-> "", locals |-> None]

\* the ledger __init__ leaves (lines 15-28): the fields of lines 15-25, then
\* create_block(previous_hash="0", proof=100) on the empty chain
Constructed ==
    /\ candidates \in CandidateLists
    /\ election_name = "Student Council Election"
    /\ now = 0
    /\ election_start = now
    /\ election_end = now + voting_duration_days
    /\ voted_voters = {}
    /\ pending_votes = <<>>
    /\ chain = << [ index         |-> 1,
                    timestamp     |-> now,
                    votes         |-> <<>>,
                    proof         |-> GenesisProof,
                    previous_hash |-> GenesisPreviousHash,
                    election_name |-> election_name ] >>
    /\ accepted = <<>>
    /\ sealed = 0
    /\ last = Call("__init__", None, "", None)
    /\ frames = [t \in Threads |-> Idle]

\* a constructed ledger whose callers make one call at a time; every action
\* of Next is a whole call
Init ==
    /\ Constructed
    /\ serialized = TRUE

Next ==
    \/ \E voter_id \in VoterIds, candidate \in CandidateInputs :
           cast_vote(voter_id, candidate)
    \/ \E input \in BlockInputs :
           create_block(input.proof, input.previous_hash)
    \/ \E force_close \in BOOLEAN : get_election_results(force_close)
    \/ Tick

Spec == Init /\ [][Next]_vars

----------------------------------------------------------------------------
(* Calls in progress: a thread's call advances statement by statement *)

\* thread t may start a call
CanStart(t) ==
    /\ frames[t] = Idle
    /\ serialized => \A u \in Threads : frames[u] = Idle

\* thread t is in a call of op at the statement of line pc
At(t, op, pc) == frames[t].op = op /\ frames[t].pc = pc

Frame(op, pc, locals) == [op |-> op, pc |-> pc, locals |-> locals]

----------------------------------------------------------------------------
(* proof_of_work, lines 93-103 *)

\* last_proof values a caller passes to proof_of_work: the genesis proof, the
\* proof mined from it, and 0, for which no proof up to MaxSearch is valid
LastProofInputs == {100, 35293, 0}

\* variant of pow_continue: the loop runs while the proof is valid
pow_continue_while_valid(last_proof, proof) == valid_proof(last_proof, proof)

\* the loop condition of line 101
pow_continue(last_proof, proof) == ~valid_proof(last_proof, proof)

\* the call and proof = 0, line 100
pow_call(t, last_proof) ==
    /\ CanStart(t)
    /\ frames' = [frames EXCEPT ![t] =
                      Frame("proof_of_work", "101",
                            [last_proof |-> last_proof, proof |-> 0])]
    /\ UNCHANGED <<chain, pending_votes, candidates, election_name,
                   election_start, election_end, voted_voters, now, accepted,
                   sealed, last, serialized>>

\* one test of the loop condition, line 101, and proof += 1, line 102
pow_loop(t) ==
    /\ At(t, "proof_of_work", "101")
    /\ LET l == frames[t].locals
       IN  IF pow_continue(l.last_proof, l.proof)
           THEN /\ l.proof < MaxSearch
                /\ frames' = [frames EXCEPT ![t].locals.proof = @ + 1]
           ELSE frames' = [frames EXCEPT ![t].pc = "103"]
    /\ UNCHANGED <<chain, pending_votes, candidates, election_name,
                   election_start, election_end, voted_voters, now, accepted,
                   sealed, last, serialized>>

\* return proof, line 103
pow_return(t) ==
    /\ At(t, "proof_of_work", "103")
    /\ last' = Call("proof_of_work",
                    [last_proof |-> frames[t].locals.last_proof], "",
                    frames[t].locals.proof)
    /\ frames' = [frames EXCEPT ![t] = Idle]
    /\ UNCHANGED <<chain, pending_votes, candidates, election_name,
                   election_start, election_end, voted_voters, now, accepted,
                   sealed, serialized>>

\* the thread that mines
Miner == 1

\* the ledger of main (line 141), no call in progress
InitPoW ==
    /\ Constructed
    /\ candidates = <<"Alice", "Bob", "Charlie">>
    /\ serialized = TRUE

NextPoW ==
    \/ \E last_proof \in LastProofInputs : pow_call(Miner, last_proof)
    \/ pow_loop(Miner)
    \/ pow_return(Miner)

\* a thread that is in the loop keeps running it
SpecPoW ==
    /\ InitPoW
    /\ [][NextPoW]_vars
    /\ \A t \in Threads : WF_vars(pow_loop(t)) /\ WF_vars(pow_return(t))

----------------------------------------------------------------------------
(* cast_vote and create_block statement by statement, for callers on several
   threads; the clock stands still, and what a call returns or raises goes to
   its caller without being recorded in last *)

\* the call of cast_vote
cv_call(t, voter_id, candidate) ==
    /\ CanStart(t)
    /\ frames' = [frames EXCEPT ![t] =
                      Frame("cast_vote", "63",
                            [voter_id |-> voter_id, candidate |-> candidate])]
    /\ UNCHANGED <<chain, pending_votes, candidates, election_name,
                   election_start, election_end, voted_voters, now, accepted,
                   sealed, last, serialized>>

\* the candidate check, lines 63-64
cv_validate(t) ==
    /\ At(t, "cast_vote", "63")
    /\ LET l == frames[t].locals
       IN  IF cast_vote_raises(l.voter_id, l.candidate) = InvalidCandidate
           THEN frames' = [frames EXCEPT ![t] = Idle]
           ELSE frames' = [frames EXCEPT ![t].pc = "67"]
    /\ UNCHANGED <<chain, pending_votes, candidates, election_name,
                   election_start, election_end, voted_voters, now, accepted,
                   sealed, last, serialized>>

\* the registry check, lines 67-68
cv_check(t) ==
    /\ At(t, "cast_vote", "67")
    /\ LET l == frames[t].locals
       IN  IF cast_vote_raises(l.voter_id, l.candidate) = DuplicateVoter
           THEN frames' = [frames EXCEPT ![t] = Idle]
           ELSE frames' = [frames EXCEPT ![t].pc = "78"]
    /\ UNCHANGED <<chain, pending_votes, candidates, election_name,
                   election_start, election_end, voted_voters, now, accepted,
                   sealed, last, serialized>>

\* the vote is built and appended to the buffer, lines 71-78
cv_append(t) ==
    /\ At(t, "cast_vote", "78")
    /\ LET l    == frames[t].locals
           vote == new_vote(l.voter_id, l.candidate)
       IN  /\ pending_votes' = pending_append(vote)
           /\ accepted' = Append(accepted, [voter_id |-> l.voter_id, vote |-> vote])
           /\ frames' = [frames EXCEPT ![t] =
                             Frame("cast_vote", "79",
                                   [voter_id |-> l.voter_id,
                                    candidate |-> l.candidate, vote |-> vote])]
    /\ UNCHANGED <<chain, candidates, election_name, election_start,
                   election_end, voted_voters, now, sealed, last, serialized>>

\* the voter is marked and the vote returned, lines 79-81
cv_mark(t) ==
    /\ At(t, "cast_vote", "79")
    /\ voted_voters' = voters_add(frames[t].locals.voter_id)
    /\ frames' = [frames EXCEPT ![t] = Idle]
    /\ UNCHANGED <<chain, pending_votes, candidates, election_name,
                   election_start, election_end, now, accepted, sealed, last,
                   serialized>>

\* the call of create_block
cb_call(t, proof, previous_hash) ==
    /\ CanStart(t)
    /\ Len(chain) <= MaxThreadChain
    /\ frames' = [frames EXCEPT ![t] =
                      Frame("create_block", "38",
                            [proof |-> proof, previous_hash |-> previous_hash])]
    /\ UNCHANGED <<chain, pending_votes, candidates, election_name,
                   election_start, election_end, voted_voters, now, accepted,
                   sealed, last, serialized>>

\* the block dict with its copy of the buffer, lines 38-45
cb_build(t) ==
    /\ At(t, "create_block", "38")
    /\ LET l == frames[t].locals
       IN  frames' = [frames EXCEPT ![t] =
                         Frame("create_block", "48",
                               [proof |-> l.proof, previous_hash |-> l.previous_hash,
                                block |-> new_block(l.proof, l.previous_hash)])]
    /\ UNCHANGED <<chain, pending_votes, candidates, election_name,
                   election_start, election_end, voted_voters, now, accepted,
                   sealed, last, serialized>>

\* the buffer is replaced by an empty list, line 48
cb_reset(t) ==
    /\ At(t, "create_block", "48")
    /\ pending_votes' = reset_pending
    /\ sealed' = Len(accepted)
    /\ frames' = [frames EXCEPT ![t].pc = "51"]
    /\ UNCHANGED <<chain, candidates, election_name, election_start,
                   election_end, voted_voters, now, accepted, last, serialized>>

\* the block is appended and returned, lines 51-52
cb_append(t) ==
    /\ At(t, "create_block", "51")
    /\ chain' = chain_append(frames[t].locals.block)
    /\ frames' = [frames EXCEPT ![t] = Idle]
    /\ UNCHANGED <<pending_votes, candidates, election_name, election_start,
                   election_end, voted_voters, now, accepted, sealed, last,
                   serialized>>

\* candidate names the threads pass to cast_vote
ThreadCandidateInputs == {"Alice", "Dave"}

\* a constructed ledger whose callers either take turns (serialized) or call
\* from two threads at any time; both threads cast votes, the blocks are
\* created by the thread that mines
InitThreads ==
    /\ Constructed
    /\ candidates = <<"Alice", "Bob", "Charlie">>
    /\ serialized \in BOOLEAN

NextThreads ==
    \/ \E t \in Threads, voter_id \in VoterIds, candidate \in ThreadCandidateInputs :
           cv_call(t, voter_id, candidate)
    \/ \E t \in Threads : cv_validate(t)
    \/ \E t \in Threads : cv_check(t)
    \/ \E t \in Threads : cv_append(t)
    \/ \E t \in Threads : cv_mark(t)
    \/ \E input \in BlockInputs :
           cb_call(Miner, input.proof, input.previous_hash)
    \/ cb_build(Miner)
    \/ cb_reset(Miner)
    \/ cb_append(Miner)

SpecThreads == InitThreads /\ [][NextThreads]_vars

----------------------------------------------------------------------------
(* Vocabulary of the properties *)

\* the step is a call of op: every call leaves its record in last
Called(op) == last'.op = op /\ last' # last

\* the accepted votes in admission order
AcceptedVotes == [ i \in 1..Len(accepted) |-> accepted[i].vote ]

\* the vote lists of the blocks, concatenated in chain order
RECURSIVE ChainVotes(_)
ChainVotes(blocks) ==
    IF blocks = <<>> THEN <<>>
    ELSE ChainVotes(SubSeq(blocks, 1, Len(blocks) - 1)) \o blocks[Len(blocks)].votes

\* the places <<block, position>> of the committed votes
CommittedPlaces ==
    UNION { { <<b, i>> : i \in 1..Len(chain[b].votes) } : b \in 1..Len(chain) }

----------------------------------------------------------------------------
(* C1 *)

\* the raw voter ids of the accepted votes are pairwise different
OneVotePerVoter ==
    \A i, j \in 1..Len(accepted) :
        accepted[i].voter_id = accepted[j].voter_id => i = j

\* a cast_vote with a valid candidate is accepted when its voter id has no
\* accepted vote yet, and raises the duplicate-voter error otherwise
FirstVoteOnly ==
    (Called("cast_vote") /\ last'.args.candidate \in Range(candidates)) =>
        IF \E i \in 1..Len(accepted) : accepted[i].voter_id = last'.args.voter_id
        THEN last'.raised = DuplicateVoter /\ accepted' = accepted
        ELSE /\ last'.raised = ""
             /\ Len(accepted') = Len(accepted) + 1
             /\ accepted'[Len(accepted')].voter_id = last'.args.voter_id

----------------------------------------------------------------------------
(* C2 *)

\* C2: cast_vote with a candidate outside the configured set always fails
\* with the invalid-candidate error, also when the voter id has already
\* voted, and leaves the pending buffer, the registry and the chain unchanged.
C2_InvalidCandidateRejected ==
    [][ (Called("cast_vote") /\ last'.args.candidate \notin Range(candidates)) =>
            /\ last'.raised = InvalidCandidate
            /\ UNCHANGED <<pending_votes, voted_voters, chain>> ]_vars

\* an unknown candidate is refused for a voter who has already voted
C2_Witness ==
    /\ last.op = "cast_vote"
    /\ last.raised = InvalidCandidate
    /\ last.args.candidate \notin Range(candidates)
    /\ last.args.voter_id \in voted_voters

----------------------------------------------------------------------------
(* C3 *)

\* C3: right after every create_block call the pending buffer is empty and
\* the new block's vote list is exactly the votes accepted since the previous
\* create_block call (or since initialization), in admission order.
C3_BlockSnapshotsPending ==
    [][ Called("create_block") =>
            /\ pending_votes' = <<>>
            /\ chain'[Len(chain')].votes =
                   SubSeq(AcceptedVotes, sealed + 1, Len(accepted)) ]_vars

\* a mined block with a vote, following a mined block with another vote
C3_Witness ==
    /\ last.op = "create_block"
    /\ Len(chain) = 3
    /\ chain[2].votes # <<>>
    /\ chain[3].votes # <<>>

----------------------------------------------------------------------------
(* C4 *)

\* C4: the vote lists of all blocks in chain order followed by the pending
\* buffer are the accepted votes in admission order, and no vote is at two
\* places of the chain.
C4_NoVoteLostOrReordered ==
    /\ ChainVotes(chain) \o pending_votes = AcceptedVotes
    /\ \A p, q \in CommittedPlaces :
          chain[p[1]].votes[p[2]] = chain[q[1]].votes[q[2]] => p = q

\* one accepted vote in a block and a later one still pending
C4_Witness ==
    /\ Len(chain) >= 2
    /\ chain[Len(chain)].votes # <<>>
    /\ pending_votes # <<>>

----------------------------------------------------------------------------
(* C5 *)

\* the block __init__ creates
IsGenesis(block) ==
    /\ block.index = 1
    /\ block.proof = 100
    /\ block.previous_hash = "0"
    /\ block.votes = <<>>

\* C5: the chain is never empty; right after initialization it holds exactly
\* the genesis block (index 1, proof 100, previous_hash "0", no votes), and in
\* every later state that block is still the first one.
C5_GenesisAlwaysFirst ==
    /\ Len(chain) >= 1
    /\ IsGenesis(chain[1])
    /\ last.op = "__init__" => (Len(chain) = 1 /\ accepted = <<>>)

\* votes were cast and two blocks mined on top of the genesis block
C5_Witness ==
    /\ Len(chain) = 3
    /\ accepted # <<>>
    /\ last.op = "create_block"

----------------------------------------------------------------------------
(* C6 *)

\* the block at position i has index i
IndexIsPosition == \A i \in 1..Len(chain) : chain[i].index = i

\* C6: every create_block call adds exactly one block, whose index is the
\* previous chain length plus 1; so the block at position i has index i.
C6_IndicesSequential ==
    /\ []IndexIsPosition
    /\ [][ Called("create_block") =>
              /\ Len(chain') = Len(chain) + 1
              /\ chain'[Len(chain')].index = Len(chain) + 1
              /\ last'.ret.index = Len(chain) + 1 ]_vars

\* two blocks were created by calls
C6_Witness ==
    /\ Len(chain) = 3
    /\ last.op = "create_block"
    /\ last.ret.index = 3

----------------------------------------------------------------------------
(* C7 *)

\* C7: for every block n > 1 the previous_hash field is the hash derived from
\* block n-1, and block 1 carries the sentinel previous_hash, for any
\* sequence of create_block calls made through the public interface.
C7_HashLinked ==
    /\ chain[1].previous_hash = GenesisPreviousHash
    /\ \A n \in 2..Len(chain) :
          chain[n].previous_hash = hash_voter_id(str(chain[n - 1]))

----------------------------------------------------------------------------
(* C8 *)

\* C8: every non-genesis block's proof satisfies valid_proof(proof of the
\* preceding block, proof of this block): no block is appended with a proof
\* that fails the difficulty check.
C8_ProofGatesBlocks ==
    \A n \in 2..Len(chain) : valid_proof(chain[n - 1].proof, chain[n].proof)

----------------------------------------------------------------------------
(* C9 *)

\* the number of committed votes for a candidate, counted place by place
Committed(candidate) ==
    Cardinality({ p \in CommittedPlaces : chain[p[1]].votes[p[2]].candidate = candidate })

\* the sum of a dict's values
RECURSIVE SumOver(_, _)
SumOver(counts, keys) ==
    IF keys = {} THEN 0
    ELSE LET k == CHOOSE x \in keys : TRUE
         IN  counts[k] + SumOver(counts, keys \ {k})

\* what C9 says of a returned result
TallyIsCommittedVotes(result) ==
    /\ DOMAIN result.results = Range(candidates)
    /\ \A c \in Range(candidates) : result.results[c] = Committed(c)
    /\ result.total_votes = SumOver(result.results, DOMAIN result.results)
    /\ result.total_votes = Cardinality(CommittedPlaces)
    /\ result.total_votes = Len(accepted) - Len(pending_votes)

\* C9: get_election_results returns total_votes equal to the sum of the
\* per-candidate counts and to the number of votes in all blocks, each count
\* being the number of committed votes for that candidate; pending votes are
\* not counted: total_votes = accepted votes - length of the pending buffer.
C9_TallyCountsCommitted ==
    /\ election_results.raised = ""
    /\ TallyIsCommittedVotes(election_results.ret)
    /\ last.op = "get_election_results" =>
          (last.raised = "" /\ TallyIsCommittedVotes(last.ret))

\* a result returned while one vote is committed and another is pending
C9_Witness ==
    /\ last.op = "get_election_results"
    /\ last.ret.total_votes = 1
    /\ Len(pending_votes) = 1
    /\ Len(chain) = 3

----------------------------------------------------------------------------
(* C10 *)

\* the place of a candidate in the configured list (its first occurrence)
Place(candidate) ==
    CHOOSE i \in 1..Len(candidates) :
        /\ candidates[i] = candidate
        /\ \A j \in 1..(i - 1) : candidates[j] # candidate

\* what C10 says of a returned result
WinnerIsFirstMaximum(result) ==
    /\ result.winner \in Range(candidates)
    /\ \A c \in Range(candidates) :
          /\ Committed(result.winner) >= Committed(c)
          /\ Committed(result.winner) = Committed(c) =>
                Place(result.winner) <= Place(c)

\* C10: the winner is a configured candidate whose count is at least every
\* other candidate's count; among several candidates with the maximum (also
\* with no committed vote at all) it is the first in the configured order.
C10_WinnerFirstMaximum ==
    /\ WinnerIsFirstMaximum(election_results.ret)
    /\ last.op = "get_election_results" => WinnerIsFirstMaximum(last.ret)

\* a result with two candidates tied at one vote each
C10_Witness ==
    /\ last.op = "get_election_results"
    /\ last.ret.total_votes = 2
    /\ \E c, d \in Range(candidates) :
          /\ c # d
          /\ last.ret.results[c] = 1
          /\ last.ret.results[d] = 1
          /\ last.ret.winner = c
          /\ Place(c) < Place(d)

----------------------------------------------------------------------------
(* C11 *)

----------------------------------------------------------------------------
(* C12 *)

\* the search starts at 0 and moves from a proof to the next one only
SearchInOrder ==
    \A t \in Threads :
        /\ (frames[t] = Idle /\ frames'[t] # Idle) => frames'[t].locals.proof = 0
        /\ (frames[t].op = "proof_of_work" /\ frames'[t].op = "proof_of_work") =>
              /\ frames'[t].locals.last_proof = frames[t].locals.last_proof
              /\ \/ frames'[t].locals.proof = frames[t].locals.proof
                 \/ /\ frames'[t].locals.proof = frames[t].locals.proof + 1
                    /\ ~valid_proof(frames[t].locals.last_proof, frames[t].locals.proof)
        /\ (frames[t].op = "proof_of_work" /\ frames'[t] = Idle) =>
              /\ last'.op = "proof_of_work"
              /\ last'.args.last_proof = frames[t].locals.last_proof
              /\ last'.ret = frames[t].locals.proof

\* the proof the search leaves the loop with is valid and no smaller one is
SmallestProof ==
    \A t \in Threads :
        At(t, "proof_of_work", "103") =>
            /\ valid_proof(frames[t].locals.last_proof, frames[t].locals.proof)
            /\ \A x \in 0..(frames[t].locals.proof - 1) :
                  ~valid_proof(frames[t].locals.last_proof, x)

\* a search for a last_proof that has a valid proof returns
SearchReturns ==
    \A t \in Threads : \A last_proof \in LastProofInputs :
        ( /\ frames[t].op = "proof_of_work"
          /\ frames[t].locals.last_proof = last_proof
          /\ \E x \in MinedProofs : valid_proof(last_proof, x) )
        ~> ( /\ frames[t] = Idle
             /\ last.op = "proof_of_work"
             /\ last.args.last_proof = last_proof )

\* C12: proof_of_work(p) tries 0, 1, 2, ... in increasing order and returns
\* the smallest x with valid_proof(p, x); it returns when there is such an x,
\* and only then; the chain, the pending buffer and the registry stay as
\* they are.
C12_SmallestProofFound ==
    /\ []SmallestProof
    /\ [][ /\ SearchInOrder
           /\ UNCHANGED <<chain, pending_votes, voted_voters>> ]_vars
    /\ SearchReturns

\* proof_of_work(100) has returned 35293
C12_Witness ==
    /\ last.op = "proof_of_work"
    /\ last.args.last_proof = 100
    /\ last.ret = 35293

----------------------------------------------------------------------------
(* C13 *)

\* C13: a successful cast_vote(voter_id, candidate) appends exactly one vote
\* (anonymized id of voter_id, the given candidate) to the end of the pending
\* buffer, inserts exactly voter_id into the registry, returns that vote and
\* changes nothing else: the chain is unchanged and no block is created.
C13_CastVoteEffect ==
    [][ (Called("cast_vote") /\ last'.raised = "") =>
            /\ Len(pending_votes') = Len(pending_votes) + 1
            /\ SubSeq(pending_votes', 1, Len(pending_votes)) = pending_votes
            /\ pending_votes'[Len(pending_votes')] = last'.ret
            /\ last'.ret.voter_id = VoterDigests[last'.args.voter_id]
            /\ last'.ret.candidate = last'.args.candidate
            /\ last'.ret.timestamp = now
            /\ last'.args.voter_id \notin voted_voters
            /\ voted_voters' = voted_voters \cup {last'.args.voter_id}
            /\ UNCHANGED <<chain, candidates, election_name, election_start,
                           election_end>> ]_vars

\* a vote accepted behind another pending vote, with a mined block in the chain
C13_Witness ==
    /\ last.op = "cast_vote"
    /\ last.raised = ""
    /\ Len(pending_votes) = 2
    /\ pending_votes[2] = last.ret
    /\ pending_votes[1] # last.ret
    /\ Len(chain) >= 2

----------------------------------------------------------------------------
(* C14 *)

\* the vote records of the chain and of the pending buffer
StoredVotes == Range(ChainVotes(chain)) \cup Range(pending_votes)

\* C14: the voter identifier in every vote of the pending buffer and of the
\* blocks is the SHA-256 digest of the raw voter id; different raw ids have
\* different stored identifiers, and no vote record holds a raw voter id,
\* which is in the registry only.
C14_VoterIdsAnonymized ==
    /\ \A i \in 1..Len(accepted) :
          /\ accepted[i].vote.voter_id = VoterDigests[accepted[i].voter_id]
          /\ accepted[i].vote.voter_id = hash_voter_id(accepted[i].voter_id)
          /\ accepted[i].voter_id \in voted_voters
    /\ \A i, j \in 1..Len(accepted) :
          accepted[i].voter_id # accepted[j].voter_id =>
              accepted[i].vote.voter_id # accepted[j].vote.voter_id
    /\ \A vote \in StoredVotes :
          /\ DOMAIN vote = {"voter_id", "candidate", "timestamp"}
          /\ vote.voter_id \notin VoterIds \cup voted_voters
          /\ vote.candidate \notin VoterIds \cup voted_voters
          /\ \E v \in voted_voters : vote.voter_id = VoterDigests[v]

\* votes of two voters, one in a block and one pending, under different
\* stored identifiers
C14_Witness ==
    /\ Len(chain) >= 2
    /\ \E vote \in Range(ChainVotes(chain)) : \E other \in Range(pending_votes) :
          /\ vote.voter_id = VoterDigests["v1"]
          /\ other.voter_id = VoterDigests["v2"]
    /\ voted_voters = {"v1", "v2"}

----------------------------------------------------------------------------
(* C15 *)

\* C15: the chain is append-only and committed blocks are immutable: in every
\* step the chain before is a prefix of the chain after, field for field; a
\* vote cast after a create_block call neither enters nor alters a block that
\* is already in the chain.
C15_ChainAppendOnly ==
    [][ /\ Len(chain') >= Len(chain)
        /\ \A n \in 1..Len(chain) : chain'[n] = chain[n]
        /\ (Called("cast_vote") /\ last'.raised = "") =>
              /\ chain' = chain
              /\ last'.ret \notin Range(ChainVotes(chain')) ]_vars

\* a vote accepted after a block with another vote was mined
C15_Witness ==
    /\ last.op = "cast_vote"
    /\ last.raised = ""
    /\ Len(chain) >= 2
    /\ chain[Len(chain)].votes # <<>>
    /\ last.ret \notin Range(chain[Len(chain)].votes)
    /\ last.ret \in Range(pending_votes)

----------------------------------------------------------------------------
(* C16 *)

\* the registry has one id for each vote of the blocks and of the buffer
RegistrySizeIsVoteCount ==
    Cardinality(voted_voters) = Cardinality(CommittedPlaces) + Len(pending_votes)

\* the registry changes by a successful cast_vote only, which adds its id
RegistryGrowsByCastVote ==
    /\ voted_voters \subseteq voted_voters'
    /\ voted_voters' # voted_voters =>
          /\ Called("cast_vote")
          /\ last'.raised = ""
    /\ (Called("cast_vote") /\ last'.raised = "") =>
          /\ last'.args.voter_id \notin voted_voters
          /\ voted_voters' = voted_voters \cup {last'.args.voter_id}
          /\ Cardinality(voted_voters') = Cardinality(voted_voters) + 1
    /\ (Called("create_block") \/ Called("get_election_results")) =>
          voted_voters' = voted_voters

\* C16: the voter registry changes only by a successful cast_vote, which adds
\* exactly one id; it never shrinks, create_block and get_election_results
\* leave it unchanged, and its size is the number of votes in all blocks plus
\* the length of the pending buffer.
C16_RegistryMatchesVotes ==
    /\ []RegistrySizeIsVoteCount
    /\ [][RegistryGrowsByCastVote]_vars

\* two registered voters, one vote in a block and one in the buffer
C16_Witness ==
    /\ Cardinality(voted_voters) = 2
    /\ Cardinality(CommittedPlaces) = 1
    /\ Len(pending_votes) = 1

----------------------------------------------------------------------------
(* C17 *)

\* C17: every vote in the pending buffer and in every block names a candidate
\* of the configured set, so the counter lookup of get_election_results (line
\* 130) never misses a key.
C17_VotesNameCandidates ==
    /\ \A vote \in StoredVotes : vote.candidate \in Range(candidates)
    /\ \A n \in 1..Len(chain) : \A i \in 1..Len(chain[n].votes) :
          chain[n].votes[i].candidate \in DOMAIN election_results.ret.results
    /\ election_results.raised # "KeyError"
    /\ last.op = "get_election_results" => last.raised # "KeyError"

\* a tally returned over two committed votes for different candidates
C17_Witness ==
    /\ last.op = "get_election_results"
    /\ last.raised = ""
    /\ \E p, q \in CommittedPlaces :
          chain[p[1]].votes[p[2]].candidate # chain[q[1]].votes[q[2]].candidate

----------------------------------------------------------------------------
(* C18 *)

\* the last call was a cast_vote that raised
Rejected == last.op = "cast_vote" /\ last.raised \in {InvalidCandidate, DuplicateVoter}

\* a cast_vote that raises changes no field of the ledger
RejectionChangesNothing ==
    (Called("cast_vote") /\ last'.raised # "") =>
        /\ last'.raised \in {InvalidCandidate, DuplicateVoter}
        /\ last'.ret = None
        /\ UNCHANGED <<chain, pending_votes, voted_voters, candidates,
                       election_name, election_start, election_end>>

\* the call that follows a rejected cast_vote does what it does on the ledger
\* as it is: a new voter with a valid candidate is accepted, create_block
\* takes the whole buffer, the tally is the tally of the chain
UsableAfterRejection ==
    Rejected =>
        /\ ( /\ Called("cast_vote")
             /\ last'.args.voter_id \notin voted_voters
             /\ last'.args.candidate \in Range(candidates) ) =>
               /\ last'.raised = ""
               /\ pending_votes' = Append(pending_votes, last'.ret)
        /\ Called("create_block") =>
               /\ last'.ret.votes = pending_votes
               /\ chain' = Append(chain, last'.ret)
               /\ pending_votes' = <<>>
        /\ Called("get_election_results") =>
               /\ last'.raised = ""
               /\ \A c \in Range(candidates) : last'.ret.results[c] = Committed(c)

\* C18: a cast_vote rejected with the duplicate-voter error leaves the chain,
\* the pending buffer and the registry unchanged, and after a rejected
\* cast_vote (either error) a voter who has not voted is still accepted with
\* a valid candidate, and create_block and get_election_results act on the
\* ledger as if the rejected call had not been made.
C18_RejectionIsHarmless ==
    [][RejectionChangesNothing /\ UsableAfterRejection]_vars

\* a duplicate vote was refused while another voter has not voted yet and a
\* vote is pending
C18_Witness ==
    /\ last.op = "cast_vote"
    /\ last.raised = DuplicateVoter
    /\ VoterIds \ voted_voters # {}
    /\ pending_votes # <<>>
    /\ Len(chain) < MaxChain

----------------------------------------------------------------------------
(* C19 *)

\* the vote lists of the blocks that create_block calls in progress hold
InFlightVotes ==
    UNION { Range(frames[t].locals.block.votes) :
              t \in { u \in Threads : frames[u].op = "create_block"
                                      /\ frames[u].pc \in {"48", "51"} } }

\* the accepted votes that are in no block, not in the pending buffer and not
\* in a block about to be appended
LostVotes ==
    { i \in 1..Len(accepted) :
        accepted[i].vote \notin
            Range(ChainVotes(chain)) \cup Range(pending_votes) \cup InFlightVotes }

\* the voter of a lost vote is marked as having voted, or is being marked
LostVoterStaysMarked ==
    \A i \in LostVotes :
        \/ accepted[i].voter_id \in voted_voters
        \/ \E t \in Threads : /\ At(t, "cast_vote", "79")
                              /\ frames[t].locals.voter_id = accepted[i].voter_id

\* a vote is lost only by the reset of line 48, when the buffer holds a vote
\* that was appended after the copy of line 41 was taken
LostOnlyByLateReset ==
    ~(LostVotes' \subseteq LostVotes) =>
        \E t \in Threads :
            /\ At(t, "create_block", "48")
            /\ frames'[t].pc = "51"
            /\ Len(pending_votes) > Len(frames[t].locals.block.votes)
            /\ \A i \in LostVotes' \ LostVotes :
                  /\ accepted[i].vote \in Range(pending_votes)
                  /\ accepted[i].vote \notin Range(frames[t].locals.block.votes)

\* C19: without synchronization, a cast_vote that appends to the pending
\* buffer after create_block took its copy (line 41) and before it replaces
\* the buffer (line 48) leaves an accepted vote in no block and not in the
\* buffer, its voter still marked as having voted; votes are lost in this way
\* only, and never when the calls are serialized.
C19_LateVoteLost ==
    /\ [](serialized => LostVotes = {})
    /\ []LostVoterStaysMarked
    /\ [][LostOnlyByLateReset]_vars

\* both calls have returned: the vote is in no block and not in the buffer,
\* and its voter is in the registry
C19_Witness ==
    /\ ~serialized
    /\ \A t \in Threads : frames[t] = Idle
    /\ LostVotes # {}
    /\ \A i \in LostVotes : accepted[i].voter_id \in voted_voters
    /\ pending_votes = <<>>
    /\ Len(chain) = 2

----------------------------------------------------------------------------
(* C20 *)

\* the places of the accepted votes of a voter
VotesOf(voter_id) == { i \in 1..Len(accepted) : accepted[i].voter_id = voter_id }

\* a second vote of a voter is appended only by a thread that passed the
\* check of line 67 before the first one's voter was marked at line 79
SecondVoteOnlyByRace ==
    \A t \in Threads :
        ( /\ At(t, "cast_vote", "78")
          /\ accepted' # accepted
          /\ VotesOf(frames[t].locals.voter_id) # {} ) =>
            /\ ~serialized
            /\ \/ frames[t].locals.voter_id \in voted_voters
               \/ \E u \in Threads \ {t} :
                     /\ At(u, "cast_vote", "79")
                     /\ frames[u].locals.voter_id = frames[t].locals.voter_id

\* C20: without synchronization, two cast_vote calls for one raw voter id
\* that both pass the registry check (line 67) before either inserts the id
\* (line 79) are both accepted, and two votes with the same anonymized id
\* enter the pending buffer; a voter gets a second vote in this way only, and
\* never when the calls are serialized.
C20_DoubleVoteByRace ==
    /\ [](serialized => OneVotePerVoter)
    /\ [](\A v \in VoterIds : Cardinality(VotesOf(v)) <= Cardinality(Threads))
    /\ [][SecondVoteOnlyByRace]_vars

\* both calls have returned: the buffer holds two votes with one anonymized id
C20_Witness ==
    /\ ~serialized
    /\ \A t \in Threads : frames[t] = Idle
    /\ Len(pending_votes) = 2
    /\ pending_votes[1].voter_id = pending_votes[2].voter_id
    /\ pending_votes[1].voter_id = VoterDigests["v1"]
    /\ voted_voters = {"v1"}

====
